---- MODULE Spec2Model ----
(***************************************************************************)
(* Model of the mindmap-ui interaction controller (components/Mindmap.tsx, *)
(* kept in src/types/mindmap.ts lines 374-984), its side panel             *)
(* (src/components/SidePanel.tsx lines 198-420) and the radial layout      *)
(* (src/utils/mindmapConverter.ts).                                        *)
(*                                                                         *)
(* A string is a tuple of one-character strings, so that toLowerCase, trim *)
(* and includes are computed.  A node id is a tuple: a document id "x" is  *)
(* <<"x">>, and the id `${parentId}-child-${Date.now()}` is parentId with  *)
(* the clock reading appended.  null is NoId for ids and NullNode for      *)
(* nodes.  An absent children array is the empty sequence.                 *)
(***************************************************************************)
EXTENDS Integers, Sequences, FiniteSets, TLC

(* ------------------------------ bounds -------------------------------- *)

\* Largest number of edit, add-child and delete events a document of several
\* nodes receives before it is replaced.
MaxMutations == 2
\* The same for the document of a single node.
MaxMutationsSingle == 3
\* Largest number of nodes of the trees the layout is applied to.
MaxTreeNodes == 5

(* ------------------------------ strings ------------------------------- *)

NoId == <<>>

\* String.prototype.toLowerCase, one character.
LowerChar(c) ==
    CASE c = "A" -> "a" [] c = "B" -> "b" [] c = "C" -> "c" [] c = "N" -> "n"
      [] OTHER -> c

\* String.prototype.toLowerCase.
ToLowerCase(s) == [i \in 1..Len(s) |-> LowerChar(s[i])]

RECURSIVE TrimStart(_)
TrimStart(s) == IF s # <<>> /\ Head(s) = " " THEN TrimStart(Tail(s)) ELSE s

RECURSIVE TrimEnd(_)
TrimEnd(s) ==
    IF s # <<>> /\ s[Len(s)] = " " THEN TrimEnd(SubSeq(s, 1, Len(s) - 1)) ELSE s

\* String.prototype.trim.
Trim(s) == TrimEnd(TrimStart(s))

\* String.prototype.includes.
Includes(s, q) ==
    \E i \in 0..(Len(s) - Len(q)) : SubSeq(s, i + 1, i + Len(q)) = q

(* ------------------------------- trees -------------------------------- *)

Leaf(id, label, tags) ==
    [id |-> id, label |-> label, summary |-> <<>>, description |-> <<>>,
     tags |-> tags, children |-> <<>>]

Branch(id, label, tags, children) ==
    [id |-> id, label |-> label, summary |-> <<>>, description |-> <<>>,
     tags |-> tags, children |-> children]

NullNode == Leaf(NoId, <<>>, <<>>)

\* The node with the optional field `collapsed?: boolean` set to true.
Collapsed(node) ==
    [id |-> node.id, label |-> node.label, summary |-> node.summary,
     description |-> node.description, tags |-> node.tags,
     children |-> node.children, collapsed |-> TRUE]

\* All nodes of a tree in document order (depth first, children in order).
RECURSIVE Preorder(_)
RECURSIVE PreorderAll(_)
Preorder(node) == <<node>> \o PreorderAll(node.children)
PreorderAll(children) ==
    IF children = <<>> THEN <<>>
    ELSE Preorder(Head(children)) \o PreorderAll(Tail(children))

Range(s) == {s[i] : i \in 1..Len(s)}

IdsOf(node) == {n.id : n \in Range(Preorder(node))}

\* findNode: first match in document order, or null.
RECURSIVE findNode(_, _)
RECURSIVE findNodeIn(_, _)
findNode(nodeId, node) ==
    IF node.id = nodeId THEN node ELSE findNodeIn(nodeId, node.children)
findNodeIn(nodeId, children) ==
    IF children = <<>> THEN NullNode
    ELSE LET found == findNode(nodeId, Head(children))
         IN  IF found # NullNode THEN found
             ELSE findNodeIn(nodeId, Tail(children))

\* The merge keeping the node's own fields but not its children.
Merge_dropsChildren(node, updates) ==
    [f \in DOMAIN node |->
        IF f \in DOMAIN updates THEN updates[f]
        ELSE IF f = "children" THEN <<>> ELSE node[f]]

\* { ...node, ...updates }
Merge(node, updates) ==
    [f \in DOMAIN node |-> IF f \in DOMAIN updates THEN updates[f] ELSE node[f]]

\* updateNodeInTree: the matching node gets the updates merged in and is not
\* descended into; every other node is rebuilt around its mapped children.
RECURSIVE updateNodeInTree(_, _, _)
RECURSIVE updateNodeInAll(_, _, _)
updateNodeInTree(nodeId, updates, node) ==
    IF node.id = nodeId THEN Merge(node, updates)
    ELSE [node EXCEPT !.children = updateNodeInAll(nodeId, updates, @)]
updateNodeInAll(nodeId, updates, children) ==
    IF children = <<>> THEN <<>>
    ELSE <<updateNodeInTree(nodeId, updates, Head(children))>>
         \o updateNodeInAll(nodeId, updates, Tail(children))

\* deleteNodeFromTree: null for the target itself, otherwise the node with
\* the deleted children filtered out.
RECURSIVE deleteNodeFromTree(_, _)
RECURSIVE deleteNodeFromAll(_, _)

\* deleteNodeFromTree filtering the node's own children without descending.
deleteNodeFromTree_childrenOnly(node, targetId) ==
    IF node.id = targetId THEN NullNode
    ELSE LET kept(child) == child.id # targetId
         IN  [node EXCEPT !.children = SelectSeq(@, kept)]

deleteNodeFromTree(node, targetId) ==
    IF node.id = targetId THEN NullNode
    ELSE [node EXCEPT !.children = deleteNodeFromAll(@, targetId)]
deleteNodeFromAll(children, targetId) ==
    IF children = <<>> THEN <<>>
    ELSE LET mapped == deleteNodeFromTree(Head(children), targetId)
             rest   == deleteNodeFromAll(Tail(children), targetId)
         IN  IF mapped # NullNode THEN <<mapped>> \o rest ELSE rest

\* findParent of onNodeClick: the parent of the first match, or null.
RECURSIVE findParent(_, _, _)
RECURSIVE findParentIn(_, _, _)
findParent(currentNode, targetId, parent) ==
    IF currentNode.id = targetId THEN parent
    ELSE findParentIn(currentNode.children, targetId, currentNode)
findParentIn(children, targetId, parent) ==
    IF children = <<>> THEN NullNode
    ELSE LET found == findParent(Head(children), targetId, parent)
         IN  IF found # NullNode THEN found
             ELSE findParentIn(Tail(children), targetId, parent)

\* searchNodes: ids of the nodes matching the query, in document order.
matches(node, searchLower) ==
    \/ Includes(ToLowerCase(node.label), searchLower)
    \/ Includes(ToLowerCase(node.summary), searchLower)
    \/ Includes(ToLowerCase(node.description), searchLower)
    \/ \E i \in 1..Len(node.tags) :
          Includes(ToLowerCase(node.tags[i]), searchLower)

\* searchNodes comparing the lowered fields with the query as typed.
searchNodes_queryAsTyped(query, root) ==
    IF Trim(query) = <<>> THEN <<>>
    ELSE LET all == Preorder(root)
             hit(n) == matches(n, query)
         IN  [i \in 1..Len(SelectSeq(all, hit)) |-> SelectSeq(all, hit)[i].id]

searchNodes(query, root) ==
    IF Trim(query) = <<>> THEN <<>>
    ELSE LET all == Preorder(root)
             hit(n) == matches(n, ToLowerCase(query))
         IN  [i \in 1..Len(SelectSeq(all, hit)) |-> SelectSeq(all, hit)[i].id]

(* ------------------------------- layout ------------------------------- *)

\* An angle is kept exactly: `turn` counts FullTurn-ths of a full turn, and
\* `fan` holds, per level, the offset a fan added, in sixtieths of
\* MIN_SPACING / radius(level) radians.  A coordinate is the sequence of the
\* terms cos(angle) * radius (for x) or sin(angle) * radius (for y) that were
\* added up from the root, which stands at the empty sum.

BASE_RADIUS == 250
MIN_SPACING == 180
\* LEVEL_SCALE = 0.85
LEVEL_SCALE == [num |-> 17, den |-> 20]
\* Math.PI * 2, in units of turn.
FullTurn == 600
\* MAX_ANGLE_SPAN = Math.PI * 1.6, in units of turn.
MAX_ANGLE_SPAN == (FullTurn * 8) \div 10
\* Math.PI lies below this fraction, by less than 3 in 10 millions.
PiAbove == [num |-> 355, den |-> 113]

RECURSIVE Pow(_, _)
Pow(b, e) == IF e = 0 THEN 1 ELSE b * Pow(b, e - 1)

\* const radius = BASE_RADIUS * Math.pow(LEVEL_SCALE, level - 1), kept as the
\* base and the power.
radius(level) == [base |-> BASE_RADIUS, power |-> level - 1]

\* Math.min(MAX_ANGLE_SPAN, siblingCount * (MIN_SPACING / radius)) is
\* MAX_ANGLE_SPAN when
\*   10 * siblingCount * MIN_SPACING * den^p * PiAbove.den
\*     > 16 * PiAbove.num * BASE_RADIUS * num^p      (p = level - 1),
\* both sides divided by 200 here.
angleSpanIsMax(level, siblingCount) ==
    siblingCount * (MIN_SPACING \div 20) * PiAbove.den
                 * Pow(LEVEL_SCALE.den, level - 1)
      > ((8 * BASE_RADIUS) \div 100) * PiAbove.num
                 * Pow(LEVEL_SCALE.num, level - 1)

\* The angle with every child of the first level counted from one.
angle_countsFromOne(level, index, siblingCount, parentAngle) ==
    IF level = 0 THEN [turn |-> 0, fan |-> {}]
    ELSE IF level = 1
    THEN [turn |-> ((index + 1) * FullTurn) \div siblingCount, fan |-> {}]
    ELSE IF siblingCount = 1 THEN parentAngle
    ELSE IF angleSpanIsMax(level, siblingCount)
    THEN [parentAngle EXCEPT
            !.turn = @ - MAX_ANGLE_SPAN \div 2
                       + (index * MAX_ANGLE_SPAN) \div (siblingCount - 1)]
    ELSE LET c == siblingCount * ((60 * index) \div (siblingCount - 1) - 30)
         IN  IF c = 0 THEN parentAngle
             ELSE [parentAngle EXCEPT
                     !.fan = @ \cup {[level |-> level, sixtieths |-> c]}]

\* The angle with an only child put at the start of the fan.
angle_onlyChildAtStart(level, index, siblingCount, parentAngle) ==
    IF level = 0 THEN [turn |-> 0, fan |-> {}]
    ELSE IF level = 1
    THEN [turn |-> (index * FullTurn) \div siblingCount, fan |-> {}]
    ELSE IF siblingCount = 1
    THEN [parentAngle EXCEPT
            !.fan = @ \cup {[level |-> level, sixtieths |-> 0 - 30]}]
    ELSE IF angleSpanIsMax(level, siblingCount)
    THEN [parentAngle EXCEPT
            !.turn = @ - MAX_ANGLE_SPAN \div 2
                       + (index * MAX_ANGLE_SPAN) \div (siblingCount - 1)]
    ELSE LET c == siblingCount * ((60 * index) \div (siblingCount - 1) - 30)
         IN  IF c = 0 THEN parentAngle
             ELSE [parentAngle EXCEPT
                     !.fan = @ \cup {[level |-> level, sixtieths |-> c]}]

\* let angle: 0 for the root, index / siblingCount of a turn on the first
\* level, the parent's angle for an only child, and otherwise
\* startAngle + (index / (siblingCount - 1)) * angleSpan with
\* startAngle = parentAngle - angleSpan / 2.
angle(level, index, siblingCount, parentAngle) ==
    IF level = 0 THEN [turn |-> 0, fan |-> {}]
    ELSE IF level = 1
    THEN [turn |-> (index * FullTurn) \div siblingCount, fan |-> {}]
    ELSE IF siblingCount = 1 THEN parentAngle
    ELSE IF angleSpanIsMax(level, siblingCount)
    THEN [parentAngle EXCEPT
            !.turn = @ - MAX_ANGLE_SPAN \div 2
                       + (index * MAX_ANGLE_SPAN) \div (siblingCount - 1)]
    ELSE LET c == siblingCount * ((60 * index) \div (siblingCount - 1) - 30)
         IN  IF c = 0 THEN parentAngle
             ELSE [parentAngle EXCEPT
                     !.fan = @ \cup {[level |-> level, sixtieths |-> c]}]

\* calculatePositions: the node itself, its edge from the parent, then the
\* children unless the node is collapsed.  slot holds the arguments the
\* position is computed from.
RECURSIVE calculatePositions(_, _, _, _, _, _, _, _, _)
RECURSIVE calculateChildren(_, _, _, _, _, _, _, _, _)

\* calculatePositions with hasChildren computed without isCollapsed.
calculatePositions_ignoresCollapsed(node, level, index, parentX, parentY, siblingCount, parentAngle, parentId, collapsed) ==
    LET isCollapsed == node.id \in collapsed
        hasChildren == Len(node.children) > 0
        theAngle == angle(level, index, siblingCount, parentAngle)
        term == [angle |-> theAngle, radius |-> radius(level)]
        x == IF level = 0 THEN <<>> ELSE Append(parentX, term)
        y == IF level = 0 THEN <<>> ELSE Append(parentY, term)
        self == [id |-> node.id,
                 slot |-> [level |-> level, index |-> index,
                           siblingCount |-> siblingCount],
                 angle |-> theAngle,
                 position |-> [x |-> x, y |-> y],
                 originalNode |-> node]
        edge == IF parentId # NoId
                THEN <<[source |-> parentId, target |-> node.id]>> ELSE <<>>
        sub  == IF hasChildren
                THEN calculateChildren(node.children, level + 1, 0, x, y,
                                       Len(node.children), theAngle, node.id,
                                       collapsed)
                ELSE [nodes |-> <<>>, edges |-> <<>>]
    IN  [nodes |-> <<self>> \o sub.nodes, edges |-> edge \o sub.edges]

\* calculatePositions with the edge's source and target exchanged.
calculatePositions_edgeReversed(node, level, index, parentX, parentY, siblingCount, parentAngle, parentId, collapsed) ==
    LET isCollapsed == node.id \in collapsed
        hasChildren == Len(node.children) > 0 /\ ~isCollapsed
        theAngle == angle(level, index, siblingCount, parentAngle)
        term == [angle |-> theAngle, radius |-> radius(level)]
        x == IF level = 0 THEN <<>> ELSE Append(parentX, term)
        y == IF level = 0 THEN <<>> ELSE Append(parentY, term)
        self == [id |-> node.id,
                 slot |-> [level |-> level, index |-> index,
                           siblingCount |-> siblingCount],
                 angle |-> theAngle,
                 position |-> [x |-> x, y |-> y],
                 originalNode |-> node]
        edge == IF parentId # NoId
                THEN <<[source |-> node.id, target |-> parentId]>> ELSE <<>>
        sub  == IF hasChildren
                THEN calculateChildren(node.children, level + 1, 0, x, y,
                                       Len(node.children), theAngle, node.id,
                                       collapsed)
                ELSE [nodes |-> <<>>, edges |-> <<>>]
    IN  [nodes |-> <<self>> \o sub.nodes, edges |-> edge \o sub.edges]

\* calculatePositions drawing a collapsed node on top of its parent.
calculatePositions_stacksCollapsed(node, level, index, parentX, parentY, siblingCount, parentAngle, parentId, collapsed) ==
    LET isCollapsed == node.id \in collapsed
        hasChildren == Len(node.children) > 0 /\ ~isCollapsed
        theAngle == angle(level, index, siblingCount, parentAngle)
        term == [angle |-> theAngle, radius |-> radius(level)]
        x == IF level = 0 THEN <<>> ELSE Append(parentX, term)
        y == IF level = 0 THEN <<>> ELSE Append(parentY, term)
        self == [id |-> node.id,
                 slot |-> [level |-> level, index |-> index,
                           siblingCount |-> siblingCount],
                 angle |-> theAngle,
                 position |-> IF isCollapsed THEN [x |-> parentX, y |-> parentY]
                             ELSE [x |-> x, y |-> y],
                 originalNode |-> node]
        edge == IF parentId # NoId
                THEN <<[source |-> parentId, target |-> node.id]>> ELSE <<>>
        sub  == IF hasChildren
                THEN calculateChildren(node.children, level + 1, 0, x, y,
                                       Len(node.children), theAngle, node.id,
                                       collapsed)
                ELSE [nodes |-> <<>>, edges |-> <<>>]
    IN  [nodes |-> <<self>> \o sub.nodes, edges |-> edge \o sub.edges]

calculatePositions(node, level, index, parentX, parentY, siblingCount, parentAngle, parentId, collapsed) ==
    LET isCollapsed == node.id \in collapsed
        hasChildren == Len(node.children) > 0 /\ ~isCollapsed
        theAngle == angle(level, index, siblingCount, parentAngle)
        term == [angle |-> theAngle, radius |-> radius(level)]
        x == IF level = 0 THEN <<>> ELSE Append(parentX, term)
        y == IF level = 0 THEN <<>> ELSE Append(parentY, term)
        self == [id |-> node.id,
                 slot |-> [level |-> level, index |-> index,
                           siblingCount |-> siblingCount],
                 angle |-> theAngle,
                 position |-> [x |-> x, y |-> y],
                 originalNode |-> node]
        edge == IF parentId # NoId
                THEN <<[source |-> parentId, target |-> node.id]>> ELSE <<>>
        sub  == IF hasChildren
                THEN calculateChildren(node.children, level + 1, 0, x, y,
                                       Len(node.children), theAngle, node.id,
                                       collapsed)
                ELSE [nodes |-> <<>>, edges |-> <<>>]
    IN  [nodes |-> <<self>> \o sub.nodes, edges |-> edge \o sub.edges]
calculateChildren(children, level, childIndex, parentX, parentY, childCount, parentAngle, parentId, collapsed) ==
    IF children = <<>> THEN [nodes |-> <<>>, edges |-> <<>>]
    ELSE LET first == calculatePositions(Head(children), level, childIndex,
                                         parentX, parentY, childCount,
                                         parentAngle, parentId, collapsed)
             rest  == calculateChildren(Tail(children), level, childIndex + 1,
                                        parentX, parentY, childCount,
                                        parentAngle, parentId, collapsed)
         IN  [nodes |-> first.nodes \o rest.nodes,
              edges |-> first.edges \o rest.edges]

convertMindmapToFlow(rootNode, collapsed) ==
    calculatePositions(rootNode, 0, 0, <<>>, <<>>, 1, [turn |-> 0, fan |-> {}],
                       NoId, collapsed)

(* ------------------------------ documents ----------------------------- *)

\* The documents the data prop can hold.  The node a of DocTree carries
\* collapsed: true.
DocTree ==
    [root |-> Branch(<<"r">>, <<"A", "b">>, <<>>,
        << Collapsed(Branch(<<"a">>, <<"b">>, <<>>,
              << Leaf(<<"c">>, <<"a">>, << <<"B">> >>) >>)),
           Leaf(<<"b">>, <<"a", "b">>, <<>>) >>)]

DocSingle == [root |-> Leaf(<<"s">>, <<"a">>, <<>>)]

Docs == {DocTree, DocSingle}

\* What the search box can hold.
Queries == {<<>>, <<" ">>, <<"A">>}

\* What the side panel's inputs can be edited to.
EditUpdates ==
    { [label |-> <<"b">>] }

\* What Date.now() can read when a child is added.  Two events can see the
\* same reading, and the wall clock can be set back.
Clock == {0, 1}

\* An id no document holds.
StaleId == <<"z">>

(* -------------------------------- state ------------------------------- *)

VARIABLES
    data,              \* the data prop
    mindmapData,       \* useState<MindmapData>(data)
    collapsedNodes,    \* useState<Set<string>>
    selectedNodeId,    \* useState<string | null>
    hoveredNodeId,     \* useState<string | null>
    highlightedNodes,  \* useState<Set<string>>
    showSidePanel,     \* useState(false)
    searchQuery,       \* useState('')
    nodes,             \* useNodesState
    edges,             \* useEdgesState
    mutations,         \* edit, add-child and delete events since the last
                       \* document replacement
    lastEvent          \* the event handled last: its kind, its target id and,
                       \* for a click, the place of the clicked node in nodes

vars == <<data, mindmapData, collapsedNodes, selectedNodeId, hoveredNodeId,
          highlightedNodes, showSidePanel, searchQuery, nodes, edges,
          mutations, lastEvent>>

\* The number of edit, add-child and delete events the current document can
\* receive.
Budget == IF data = DocSingle THEN MaxMutationsSingle ELSE MaxMutations

Event(kind, id) == [kind |-> kind, id |-> id, at |-> 0]

\* const selectedNode = useMemo(...)
selectedNode ==
    IF selectedNodeId = NoId THEN NullNode
    ELSE findNode(selectedNodeId, mindmapData.root)

\* {showSidePanel && selectedNode && <SidePanel .../>}
panelRendered == showSidePanel /\ selectedNode # NullNode

\* isRootNode={selectedNode.id === mindmapData.root.id}
isRootNode == selectedNode.id = mindmapData.root.id

\* hoverTooltip without the test of the selection and the panel.
hoverTooltip_ignoresPanel ==
    IF hoveredNodeId = NoId THEN NullNode
    ELSE findNode(hoveredNodeId, mindmapData.root)

\* const hoverTooltip = useMemo(...): the node the tooltip shows, or null.
hoverTooltip ==
    IF hoveredNodeId = NoId THEN NullNode
    ELSE LET node == findNode(hoveredNodeId, mindmapData.root)
         IN  IF node = NullNode THEN NullNode
             ELSE IF selectedNodeId = hoveredNodeId /\ showSidePanel
                  THEN NullNode
                  ELSE node

(* ------------------------------- effects ------------------------------ *)

\* The search effect clearing the highlights without looking at the
\* selection.
searchEffect_clearsAlways(root, query, selected, hl) ==
    IF Trim(query) # <<>> THEN Range(searchNodes(query, root)) ELSE {}

\* useEffect(..., [searchQuery, searchNodes, selectedNodeId]): the
\* highlights it leaves, given the highlights hl the render started with.
searchEffect(root, query, selected, hl) ==
    IF Trim(query) # <<>> THEN Range(searchNodes(query, root))
    ELSE IF selected = NoId THEN {} ELSE hl

\* Commit with the layout effect depending on mindmapData only.
Commit_layoutOnDocOnly(st) ==
    LET searchRuns == \/ st.docSet
                      \/ st.searchQuery # searchQuery
                      \/ st.selectedNodeId # selectedNodeId
        flow == convertMindmapToFlow(st.mindmapData.root, st.collapsedNodes)
    IN  /\ mindmapData' = st.mindmapData
        /\ collapsedNodes' = st.collapsedNodes
        /\ selectedNodeId' = st.selectedNodeId
        /\ showSidePanel' = st.showSidePanel
        /\ searchQuery' = st.searchQuery
        /\ highlightedNodes' =
              IF searchRuns
              THEN searchEffect(st.mindmapData.root, st.searchQuery,
                                st.selectedNodeId, st.highlightedNodes)
              ELSE st.highlightedNodes
        /\ IF st.docSet
           THEN nodes' = flow.nodes /\ edges' = flow.edges
           ELSE UNCHANGED <<nodes, edges>>

\* One event: the handler's batched state updates st are committed, the
\* component renders, and the effects whose dependencies changed run.
\* st.docSet and st.collapsedSet tell whether setMindmapData and
\* setCollapsedNodes were called (a new object each time).
Commit(st) ==
    LET searchRuns == \/ st.docSet
                      \/ st.searchQuery # searchQuery
                      \/ st.selectedNodeId # selectedNodeId
        flow == convertMindmapToFlow(st.mindmapData.root, st.collapsedNodes)
    IN  /\ mindmapData' = st.mindmapData
        /\ collapsedNodes' = st.collapsedNodes
        /\ selectedNodeId' = st.selectedNodeId
        /\ showSidePanel' = st.showSidePanel
        /\ searchQuery' = st.searchQuery
        /\ highlightedNodes' =
              IF searchRuns
              THEN searchEffect(st.mindmapData.root, st.searchQuery,
                                st.selectedNodeId, st.highlightedNodes)
              ELSE st.highlightedNodes
        /\ IF st.docSet \/ st.collapsedSet
           THEN nodes' = flow.nodes /\ edges' = flow.edges
           ELSE UNCHANGED <<nodes, edges>>

\* The state the handlers of the current render close over.
current ==
    [mindmapData |-> mindmapData, collapsedNodes |-> collapsedNodes,
     selectedNodeId |-> selectedNodeId, showSidePanel |-> showSidePanel,
     searchQuery |-> searchQuery, highlightedNodes |-> highlightedNodes,
     docSet |-> FALSE, collapsedSet |-> FALSE]

(* -------------------------------- Init -------------------------------- *)

Init ==
    /\ data \in Docs
    /\ mindmapData = data
    /\ collapsedNodes = {}
    /\ selectedNodeId = NoId
    /\ hoveredNodeId = NoId
    /\ highlightedNodes = {}
    /\ showSidePanel = FALSE
    /\ searchQuery = <<>>
    /\ nodes = convertMindmapToFlow(data.root, {}).nodes
    /\ edges = convertMindmapToFlow(data.root, {}).edges
    /\ mutations = 0
    /\ lastEvent = Event("mount", NoId)

(* ------------------------------- events ------------------------------- *)

\* useEffect(..., [data]): the parent passes another document.
DataChange(d) ==
    /\ data' = d
    /\ Commit([current EXCEPT !.mindmapData = d, !.selectedNodeId = NoId,
                              !.showSidePanel = FALSE,
                              !.highlightedNodes = {},
                              !.collapsedNodes = {},
                              !.docSet = TRUE, !.collapsedSet = TRUE])
    /\ mutations' = 0
    /\ lastEvent' = Event("data", NoId)
    /\ UNCHANGED hoveredNodeId

\* relatedNodes adding the parent's id without testing that a parent was
\* found.
relatedNodes_addsNullParent(node, nodeData, root) ==
    LET parent == findParent(root, node.id, NullNode)
    IN  {node.id} \cup {nodeData.children[i].id : i \in 1..Len(nodeData.children)}
        \cup {parent.id}

\* The highlights onNodeClick computes: the node, its children, its parent.
relatedNodes(node, nodeData, root) ==
    LET parent == findParent(root, node.id, NullNode)
    IN  {node.id} \cup {nodeData.children[i].id : i \in 1..Len(nodeData.children)}
        \cup (IF parent # NullNode THEN {parent.id} ELSE {})

\* onNodeClick toggling the collapsed set without looking at the children.
onNodeClick_togglesLeaves(st, node) ==
    LET nodeData == node.originalNode
    IN  [st EXCEPT
           !.collapsedNodes =
               IF node.id \in @ THEN @ \ {node.id} ELSE @ \cup {node.id},
           !.collapsedSet = TRUE,
           !.selectedNodeId = node.id,
           !.showSidePanel =
               IF ~(st.selectedNodeId = node.id) \/ ~st.showSidePanel
               THEN TRUE ELSE @,
           !.highlightedNodes = relatedNodes(node, nodeData, st.mindmapData.root)]

\* onNodeClick cutting the children of a node out of the document when it
\* collapses it.
onNodeClick_prunesCollapsed(st, node) ==
    LET nodeData == node.originalNode
        hasKids  == Len(nodeData.children) > 0
    IN  [st EXCEPT
           !.mindmapData =
               IF hasKids /\ node.id \notin st.collapsedNodes
               THEN [@ EXCEPT !.root = updateNodeInTree(node.id,
                                          [children |-> <<>>], @)]
               ELSE @,
           !.docSet = hasKids /\ node.id \notin st.collapsedNodes,
           !.collapsedNodes =
               IF hasKids
               THEN IF node.id \in @ THEN @ \ {node.id} ELSE @ \cup {node.id}
               ELSE @,
           !.collapsedSet = hasKids,
           !.selectedNodeId = node.id,
           !.showSidePanel =
               IF ~(st.selectedNodeId = node.id) \/ ~st.showSidePanel
               THEN TRUE ELSE @,
           !.highlightedNodes = relatedNodes(node, nodeData, st.mindmapData.root)]

\* The state updates onNodeClick queues for the displayed node `node`.
onNodeClick(st, node) ==
    LET nodeData == node.originalNode
        hasKids  == Len(nodeData.children) > 0
    IN  [st EXCEPT
           !.collapsedNodes =
               IF hasKids
               THEN IF node.id \in @ THEN @ \ {node.id} ELSE @ \cup {node.id}
               ELSE @,
           !.collapsedSet = hasKids,
           !.selectedNodeId = node.id,
           !.showSidePanel =
               IF ~(st.selectedNodeId = node.id) \/ ~st.showSidePanel
               THEN TRUE ELSE @,
           !.highlightedNodes = relatedNodes(node, nodeData, st.mindmapData.root)]

\* A click on the i-th displayed node.
NodeClick(i) ==
    /\ Commit(onNodeClick(current, nodes[i]))
    /\ lastEvent' = [Event("click", nodes[i].id) EXCEPT !.at = i]
    /\ UNCHANGED <<data, hoveredNodeId, mutations>>

\* onNodeMouseEnter selecting the node the pointer enters.
onNodeMouseEnter_selects(node) ==
    /\ hoveredNodeId' = node.id
    /\ selectedNodeId' = node.id
    /\ lastEvent' = Event("enter", node.id)
    /\ UNCHANGED <<data, mindmapData, collapsedNodes,
                   highlightedNodes, showSidePanel, searchQuery, nodes, edges,
                   mutations>>

onNodeMouseEnter(node) ==
    /\ hoveredNodeId' = node.id
    /\ lastEvent' = Event("enter", node.id)
    /\ UNCHANGED <<data, mindmapData, collapsedNodes, selectedNodeId,
                   highlightedNodes, showSidePanel, searchQuery, nodes, edges,
                   mutations>>

onNodeMouseLeave ==
    /\ hoveredNodeId' = NoId
    /\ lastEvent' = Event("leave", NoId)
    /\ UNCHANGED <<data, mindmapData, collapsedNodes, selectedNodeId,
                   highlightedNodes, showSidePanel, searchQuery, nodes, edges,
                   mutations>>

\* onChange of the search box, and its clear button.
SetSearchQuery(q) ==
    /\ q # searchQuery
    /\ Commit([current EXCEPT !.searchQuery = q])
    /\ lastEvent' = Event("search", NoId)
    /\ UNCHANGED <<data, hoveredNodeId, mutations>>

\* The clearing that leaves the panel open.
clearSelection_keepsPanel(st) ==
    [st EXCEPT !.highlightedNodes = {}, !.selectedNodeId = NoId]

\* What the Clear Selection button, onClose and the overlay all do.
clearSelection(st) ==
    [st EXCEPT !.highlightedNodes = {}, !.selectedNodeId = NoId,
               !.showSidePanel = FALSE]

ClearSelection ==
    /\ Commit(clearSelection(current))
    /\ lastEvent' = Event("clear", NoId)
    /\ UNCHANGED <<data, hoveredNodeId, mutations>>

\* The panel's close button (panel rendered) or the overlay (panel open).
ClosePanel ==
    /\ showSidePanel
    /\ Commit(clearSelection(current))
    /\ lastEvent' = Event("close", NoId)
    /\ UNCHANGED <<data, hoveredNodeId, mutations>>

\* handleUpdateNode applying the edit to the document of the data prop.
handleUpdateNode_fromProp(st, nodeId, updates) ==
    LET updatedRoot == updateNodeInTree(nodeId, updates, data.root)
    IN  [st EXCEPT !.mindmapData = [@ EXCEPT !.root = updatedRoot],
                   !.docSet = TRUE]

\* handleUpdateNode
handleUpdateNode(st, nodeId, updates) ==
    LET updatedRoot == updateNodeInTree(nodeId, updates, st.mindmapData.root)
    IN  [st EXCEPT !.mindmapData = [@ EXCEPT !.root = updatedRoot],
                   !.docSet = TRUE]

\* The node handleAddChildNode creates at clock reading t.
newChild(parentId, t) ==
    [id |-> Append(parentId, t),
     label |-> <<"N", "e", "w", " ", "N", "o", "d", "e">>,
     summary |-> <<"C", "l", "i", "c", "k", " ", "t", "o", " ", "e", "d", "i", "t">>,
     description |-> <<"A", "d", "d", " ", "a", " ", "d", "e", "s", "c", "r", "i",
                       "p", "t", "i", "o", "n", " ", "h", "e", "r", "e">>,
     tags |-> << <<"n", "e", "w">> >>,
     children |-> <<>>]

\* handleAddChildNode, Date.now() reading t.
handleAddChildNode(st, parentId, t) ==
    LET parentNode  == findNode(parentId, st.mindmapData.root)
        newNode     == newChild(parentId, t)
        updatedRoot ==
            updateNodeInTree(parentId,
                             [children |-> Append(parentNode.children, newNode)],
                             st.mindmapData.root)
    IN  IF parentNode = NullNode THEN st
        ELSE [st EXCEPT !.mindmapData = [@ EXCEPT !.root = updatedRoot],
                        !.docSet = TRUE,
                        !.collapsedNodes = @ \ {parentId},
                        !.collapsedSet = TRUE,
                        !.selectedNodeId = newNode.id]

\* handleDeleteNode without the root guard and without the test of the
\* result.
handleDeleteNode_unguarded(st, nodeId) ==
    LET updatedRoot == deleteNodeFromTree(st.mindmapData.root, nodeId)
    IN  [st EXCEPT !.mindmapData = [@ EXCEPT !.root = updatedRoot],
                   !.docSet = TRUE,
                   !.selectedNodeId = NoId,
                   !.showSidePanel = FALSE,
                   !.highlightedNodes = {}]

\* handleDeleteNode leaving the selection and the panel as they are.
handleDeleteNode_keepsSelection(st, nodeId) ==
    IF nodeId = st.mindmapData.root.id THEN st
    ELSE LET updatedRoot == deleteNodeFromTree(st.mindmapData.root, nodeId)
         IN  IF updatedRoot # NullNode
             THEN [st EXCEPT !.mindmapData = [@ EXCEPT !.root = updatedRoot],
                             !.docSet = TRUE,
                             !.highlightedNodes = {}]
             ELSE st

\* handleDeleteNode
handleDeleteNode(st, nodeId) ==
    IF nodeId = st.mindmapData.root.id THEN st
    ELSE LET updatedRoot == deleteNodeFromTree(st.mindmapData.root, nodeId)
         IN  IF updatedRoot # NullNode
             THEN [st EXCEPT !.mindmapData = [@ EXCEPT !.root = updatedRoot],
                             !.docSet = TRUE,
                             !.selectedNodeId = NoId,
                             !.showSidePanel = FALSE,
                             !.highlightedNodes = {}]
             ELSE st

\* An input of the side panel is edited: handleFieldUpdate.  The tags input
\* exists only for a node that has tags.
PanelEdit(updates) ==
    /\ mutations < Budget
    /\ mutations' = mutations + 1
    /\ panelRendered
    /\ "tags" \in DOMAIN updates => selectedNode.tags # <<>>
    /\ Merge(selectedNode, updates) # selectedNode
    /\ Commit(handleUpdateNode(current, selectedNode.id, updates))
    /\ lastEvent' = Event("edit", selectedNode.id)
    /\ UNCHANGED <<data, hoveredNodeId>>

\* The side panel's Add Child button, pressed when Date.now() reads t.
PanelAddChild(t) ==
    /\ mutations < Budget
    /\ mutations' = mutations + 1
    /\ panelRendered
    /\ Commit(handleAddChildNode(current, selectedNode.id, t))
    /\ lastEvent' = Event("add", selectedNode.id)
    /\ UNCHANGED <<data, hoveredNodeId>>

\* The side panel's Delete button, confirmed: onDeleteNode, then onClose.
PanelDelete ==
    /\ mutations < Budget
    /\ mutations' = mutations + 1
    /\ panelRendered
    /\ ~isRootNode
    /\ Commit(clearSelection(handleDeleteNode(current, selectedNode.id)))
    /\ lastEvent' = Event("delete", selectedNode.id)
    /\ UNCHANGED <<data, hoveredNodeId>>

\* handleExportData: serialises mindmapData, no state is set.
handleExportData ==
    /\ lastEvent' = Event("export", NoId)
    /\ UNCHANGED <<data, mindmapData, collapsedNodes, selectedNodeId,
                   hoveredNodeId, highlightedNodes, showSidePanel, searchQuery,
                   nodes, edges,
                   mutations>>

Next ==
    \/ \E d \in Docs : DataChange(d)
    \/ \E i \in 1..Len(nodes) : NodeClick(i)
    \/ \E q \in Queries : SetSearchQuery(q)
    \/ ClearSelection
    \/ ClosePanel
    \/ \E u \in EditUpdates : PanelEdit(u)
    \/ \E t \in Clock : PanelAddChild(t)
    \/ PanelDelete

\* The events that set the document, the selection, the collapsed set, the
\* highlights, the panel or the query.
Spec == Init /\ [][Next]_vars

\* The component mounted with the document of a single node.
InitView == Init /\ data = DocSingle

NextView ==
    \/ Next /\ data' = DocSingle /\ mutations' <= MaxMutations
    \/ \E i \in 1..Len(nodes) : onNodeMouseEnter(nodes[i])
    \/ onNodeMouseLeave
    \/ handleExportData

\* Every event the presentation surface can raise, the pointer and the export
\* button included, on the document of a single node and what grows from it
\* in MaxMutations events.
SpecView == InitView /\ [][NextView]_vars

(* ----------------------- the handlers called directly ------------------ *)

\* The ids a caller can pass: those of the document and a stale one.
CallIds == IdsOf(mindmapData.root) \cup {StaleId}

CallUpdateNode(nodeId, updates) ==
    /\ mutations < Budget
    /\ mutations' = mutations + 1
    /\ Commit(handleUpdateNode(current, nodeId, updates))
    /\ lastEvent' = Event("callEdit", nodeId)
    /\ UNCHANGED <<data, hoveredNodeId>>

CallAddChildNode(parentId, t) ==
    /\ mutations < Budget
    /\ mutations' = mutations + 1
    /\ Commit(handleAddChildNode(current, parentId, t))
    /\ lastEvent' = Event("callAdd", parentId)
    /\ UNCHANGED <<data, hoveredNodeId>>

CallDeleteNode(nodeId) ==
    /\ mutations < Budget
    /\ mutations' = mutations + 1
    /\ Commit(handleDeleteNode(current, nodeId))
    /\ lastEvent' = Event("callDelete", nodeId)
    /\ UNCHANGED <<data, hoveredNodeId>>

NextHandlers ==
    \/ Next
    \/ \E id \in CallIds, u \in EditUpdates : CallUpdateNode(id, u)
    \/ \E id \in CallIds, t \in Clock : CallAddChildNode(id, t)
    \/ \E id \in CallIds : CallDeleteNode(id)

\* The events of Spec, and onUpdateNode, onAddChildNode and onDeleteNode
\* called with any id.
SpecHandlers == Init /\ [][NextHandlers]_vars

(* ------------------------ the layout on its own ----------------------- *)

\* The trees with at most MaxTreeNodes nodes and pairwise distinct ids: node
\* k > 1 hangs under an earlier node parentOf[k], siblings in increasing order.
TreeId(k) == <<"n", k>>

RECURSIVE TreeAt(_, _, _)
RECURSIVE TreeChildren(_, _, _, _)
TreeAt(parentOf, n, k) ==
    Branch(TreeId(k), <<>>, <<>>, TreeChildren(parentOf, n, k, k + 1))
TreeChildren(parentOf, n, k, from) ==
    IF from > n THEN <<>>
    ELSE IF parentOf[from] = k
         THEN <<TreeAt(parentOf, n, from)>> \o TreeChildren(parentOf, n, k, from + 1)
         ELSE TreeChildren(parentOf, n, k, from + 1)

Trees ==
    UNION { { TreeAt(parentOf, n, 1) :
                parentOf \in { f \in [2..n -> 1..n] : \A k \in 2..n : f[k] < k } }
            : n \in 1..MaxTreeNodes }

InitLayout ==
    /\ \E tree \in Trees : data = [root |-> tree]
    /\ mindmapData = data
    /\ collapsedNodes \in SUBSET IdsOf(data.root)
    /\ selectedNodeId = NoId
    /\ hoveredNodeId = NoId
    /\ highlightedNodes = {}
    /\ showSidePanel = FALSE
    /\ searchQuery = <<>>
    /\ nodes = <<>>
    /\ edges = <<>>
    /\ mutations = 0
    /\ lastEvent = Event("mount", NoId)

\* useMemo(() => convertMindmapToFlow(mindmapData.root, collapsedNodes))
Layout ==
    /\ lastEvent.kind = "mount"
    /\ nodes' = convertMindmapToFlow(mindmapData.root, collapsedNodes).nodes
    /\ edges' = convertMindmapToFlow(mindmapData.root, collapsedNodes).edges
    /\ lastEvent' = Event("layout", NoId)
    /\ UNCHANGED <<data, mindmapData, collapsedNodes, selectedNodeId,
                   hoveredNodeId, highlightedNodes, showSidePanel, searchQuery,
                   mutations>>

NextLayout == Layout

\* convertMindmapToFlow applied to every tree of Trees and every collapsed set.
SpecLayout == InitLayout /\ [][NextLayout]_vars

(* --------------------- what the claims are stated in ------------------- *)

\* The node ids of a sequence of tree nodes or of displayed nodes.
IdSeq(s) == [i \in 1..Len(s) |-> s[i].id]

\* Pairwise distinct ids.
UniqueIds(root) == Cardinality(IdsOf(root)) = Len(Preorder(root))

\* The ids of the proper descendants of the nodes called id.
DescendantIds(root, id) ==
    UNION { UNION { IdsOf(n.children[i]) : i \in 1..Len(n.children) }
            : n \in {m \in Range(Preorder(root)) : m.id = id} }

\* The ids of the proper ancestors of the nodes called id.
AncestorIds(root, id) ==
    {n.id : n \in {m \in Range(Preorder(root)) : id \in DescendantIds(m, m.id)}}

\* The id of the node that has a child called id (NoId for the root).
ParentId(root, id) ==
    IF \E n \in Range(Preorder(root)) : \E i \in 1..Len(n.children) : n.children[i].id = id
    THEN (CHOOSE n \in Range(Preorder(root)) :
             \E i \in 1..Len(n.children) : n.children[i].id = id).id
    ELSE NoId

\* The nodes the layout exposes: those with no collapsed proper ancestor.
Exposed(root, collapsed) ==
    LET open(n) == AncestorIds(root, n.id) \cap collapsed = {}
    IN  SelectSeq(Preorder(root), open)

EdgeEnds == {edges[i].source : i \in 1..Len(edges)}
            \cup {edges[i].target : i \in 1..Len(edges)}

\* A node's own fields, its depth and its parent's id, in document order:
\* two trees with the same sequence are the same tree.
Entry(node, depth, parentId) ==
    [id |-> node.id, label |-> node.label, summary |-> node.summary,
     description |-> node.description, tags |-> node.tags,
     depth |-> depth, parent |-> parentId]

RECURSIVE Flat(_, _, _)
RECURSIVE FlatAll(_, _, _)
Flat(node, depth, parentId) ==
    <<Entry(node, depth, parentId)>> \o FlatAll(node.children, depth + 1, node.id)
FlatAll(children, depth, parentId) ==
    IF children = <<>> THEN <<>>
    ELSE Flat(Head(children), depth, parentId)
         \o FlatAll(Tail(children), depth, parentId)

\* The two ways a delete event arrives: the panel's button, a direct call.
DeleteKinds == {"delete", "callDelete"}

ChildIds(node) == {node.children[i].id : i \in 1..Len(node.children)}

\* The two ways an add-child event arrives, and the two ways an edit does.
AddKinds == {"add", "callAdd"}
EditKinds == {"edit", "callEdit"}

\* s contains q as a substring, letter case ignored.
ContainsNoCase(s, q) == Includes(ToLowerCase(s), ToLowerCase(q))

\* The ids of the nodes of the whole document whose label, summary,
\* description or one of whose tags contains q, letter case ignored.
MatchingIds(root, q) ==
    {n.id : n \in {m \in Range(Preorder(root)) :
                     \/ ContainsNoCase(m.label, q)
                     \/ ContainsNoCase(m.summary, q)
                     \/ ContainsNoCase(m.description, q)
                     \/ \E i \in 1..Len(m.tags) : ContainsNoCase(m.tags[i], q)}}

\* The displayed node of the given id.
Shown(id) == CHOOSE n \in Range(nodes) : n.id = id

\* The sequence s without its k-th element.
Without(s, k) == SubSeq(s, 1, k - 1) \o SubSeq(s, k + 1, Len(s))

(* -------------------------------- claims ------------------------------ *)

\* C1: once a document replacement has been processed, the collapsed set and
\* the highlights are empty, nothing is selected and the panel is closed,
\* whatever the state before.
C1_ReplacementResets ==
    lastEvent.kind = "data" =>
        /\ collapsedNodes = {}
        /\ selectedNodeId = NoId
        /\ highlightedNodes = {}
        /\ showSidePanel = FALSE

\* C2: once a click on a node has been processed, the highlights are exactly
\* the node, its direct children and its parent (if it is not the root),
\* whatever the search query and the previous selection.
C2_ClickHighlight ==
    lastEvent.kind = "click" =>
        highlightedNodes =
            {lastEvent.id}
            \cup ChildIds(findNode(lastEvent.id, mindmapData.root))
            \cup (IF lastEvent.id # mindmapData.root.id
                  THEN {ParentId(mindmapData.root, lastEvent.id)} ELSE {})

\* C3: a click on a node toggles its id in the collapsed set if and only if
\* it has a child, leaves every other id's membership alone, selects the node
\* and opens the panel.
C3_ClickCollapseSelect ==
    [][lastEvent'.kind = "click" =>
         LET id == lastEvent'.id
             clicked == nodes[lastEvent'.at].originalNode
         IN  /\ ((id \in collapsedNodes') # (id \in collapsedNodes))
                   <=> (Len(clicked.children) > 0)
             /\ collapsedNodes' \ {id} = collapsedNodes \ {id}
             /\ selectedNodeId' = id
             /\ showSidePanel' = TRUE]_vars

\* A click has collapsed a node that has children, with another id collapsed
\* before it.
C3_Witness ==
    /\ lastEvent.kind = "click"
    /\ lastEvent.id \in collapsedNodes
    /\ collapsedNodes # {lastEvent.id}
    /\ selectedNodeId = lastEvent.id

C7_RootDeletionGuard ==
    /\ [](mindmapData.root # NullNode)
    /\ [][(/\ lastEvent'.kind \in DeleteKinds
           /\ lastEvent'.id = mindmapData.root.id) =>
            UNCHANGED <<mindmapData, selectedNodeId, showSidePanel,
                        highlightedNodes, collapsedNodes, hoveredNodeId,
                        searchQuery>>]_vars

\* The root has been aimed at by a delete event while a node was selected,
\* highlighted and collapsed.
C7_Witness ==
    /\ lastEvent.kind \in DeleteKinds
    /\ lastEvent.id = mindmapData.root.id
    /\ selectedNodeId # NoId
    /\ showSidePanel
    /\ highlightedNodes # {}
    /\ collapsedNodes # {}

\* C8: a delete event aimed at an id the document does not hold leaves the
\* document, the selection, the panel, the highlights and the collapsed set
\* as they were.
C8_DeleteLookupMiss ==
    [][(/\ lastEvent'.kind \in DeleteKinds
        /\ lastEvent'.id \notin IdsOf(mindmapData.root)) =>
         /\ mindmapData' = mindmapData
         /\ UNCHANGED <<selectedNodeId, showSidePanel, highlightedNodes,
                        collapsedNodes>>]_vars

\* C9: when an existing node D that is not the root is deleted, the
\* selection, the panel and the highlights are cleared if D or a descendant
\* of D was selected, and left alone if another node was selected.
C9_DeleteAndSelection ==
    [][(/\ lastEvent'.kind \in DeleteKinds
        /\ lastEvent'.id \in IdsOf(mindmapData.root)
        /\ lastEvent'.id # mindmapData.root.id
        /\ selectedNodeId # NoId) =>
         IF selectedNodeId \in {lastEvent'.id}
                               \cup DescendantIds(mindmapData.root, lastEvent'.id)
         THEN /\ selectedNodeId' = NoId
              /\ showSidePanel' = FALSE
              /\ highlightedNodes' = {}
         ELSE UNCHANGED <<selectedNodeId, showSidePanel, highlightedNodes>>]_vars

\* C10: the ids of the document stay pairwise distinct through every
\* sequence of add-child, edit and delete events.
C10_IdsStayUnique == UniqueIds(mindmapData.root)

\* C11: after an add-child event for an existing parent P, the document holds
\* exactly one node more, placed as the last child of P behind P's former
\* children in their order, no other node has changed, P is not collapsed and
\* the new node is selected.
C11_AddChildEffect ==
    [][(/\ lastEvent'.kind \in AddKinds
        /\ lastEvent'.id \in IdsOf(mindmapData.root)) =>
         LET P      == lastEvent'.id
             before == findNode(P, mindmapData.root)
             after  == findNode(P, mindmapData'.root)
             old    == Flat(mindmapData.root, 0, NoId)
             new    == Flat(mindmapData'.root, 0, NoId)
             added  == after.children[Len(after.children)]
         IN  /\ Len(new) = Len(old) + 1
             /\ after.children = Append(before.children, added)
             /\ \E k \in 1..Len(new) :
                   /\ new[k] = Entry(added, new[k].depth, P)
                   /\ Without(new, k) = old
             /\ P \notin collapsedNodes'
             /\ selectedNodeId' = added.id]_vars

\* C12: an edit event whose node id the document does not hold, and an
\* add-child event whose parent id it does not hold, leave the document equal
\* to what it was and the selection, the panel, the highlights and the
\* collapsed set as they were.
C12_UpdateInsertLookupMiss ==
    [][(/\ lastEvent'.kind \in EditKinds \cup AddKinds
        /\ lastEvent'.id \notin IdsOf(mindmapData.root)) =>
         /\ mindmapData' = mindmapData
         /\ UNCHANGED <<selectedNodeId, showSidePanel, highlightedNodes,
                        collapsedNodes>>]_vars

\* C13: after the search query has changed to a string that is not blank
\* (not empty once trimmed), the highlights are exactly the ids of the nodes
\* of the whole document, those under collapsed ancestors included, whose
\* label, summary, description or one of whose tags contains the query,
\* letter case ignored.
C13_SearchHighlight ==
    (lastEvent.kind = "search" /\ Trim(searchQuery) # <<>>) =>
        highlightedNodes = MatchingIds(mindmapData.root, searchQuery)

\* C13 as stated, for every query that is not empty: a query of blanks only
\* is included.
C13_SearchHighlight_NonEmpty ==
    (lastEvent.kind = "search" /\ searchQuery # <<>>) =>
        highlightedNodes = MatchingIds(mindmapData.root, searchQuery)

\* A query in capitals has highlighted a node hidden under a collapsed
\* ancestor and left another node out.
C13_Witness ==
    /\ lastEvent.kind = "search"
    /\ searchQuery = <<"A">>
    /\ \E x \in highlightedNodes :
          AncestorIds(mindmapData.root, x) \cap collapsedNodes # {}
    /\ IdsOf(mindmapData.root) \ highlightedNodes # {}

\* C14: when the search query becomes empty, the highlights become empty if
\* no node is selected and stay as they are if a node is selected.
C14_SearchClear ==
    [][(lastEvent'.kind = "search" /\ searchQuery' = <<>>) =>
         IF selectedNodeId = NoId
         THEN highlightedNodes' = {}
         ELSE UNCHANGED <<highlightedNodes, selectedNodeId>>]_vars

\* The query has been emptied while a node was selected and highlights were
\* on.
C14_Witness ==
    /\ lastEvent.kind = "search"
    /\ searchQuery = <<>>
    /\ selectedNodeId # NoId
    /\ highlightedNodes # {}

\* C15: once Clear Selection has been processed, nothing is selected, the
\* panel is closed and the highlights are empty, whatever the search query.
C15_ClearSelection ==
    lastEvent.kind = "clear" =>
        /\ selectedNodeId = NoId
        /\ showSidePanel = FALSE
        /\ highlightedNodes = {}

C17_TooltipSuppression ==
    (hoverTooltip # NullNode) <=>
        /\ hoveredNodeId # NoId
        /\ hoveredNodeId \in IdsOf(mindmapData.root)
        /\ ~(hoveredNodeId = selectedNodeId /\ showSidePanel)

\* The pointer is on the selected node while the panel is open.
C17_Witness ==
    /\ hoveredNodeId # NoId
    /\ hoveredNodeId \in IdsOf(mindmapData.root)
    /\ hoveredNodeId = selectedNodeId
    /\ showSidePanel

\* C18: the pointer entering or leaving a node changes the hovered id only:
\* the selection, the panel, the collapsed set, the highlights, the query and
\* the document stay; and a click, a search, an edit, an add-child and a
\* delete never change the hovered id.
C18_HoverIndependence ==
    [][/\ lastEvent'.kind \in {"enter", "leave"} =>
            UNCHANGED <<selectedNodeId, showSidePanel, collapsedNodes,
                        highlightedNodes, searchQuery, mindmapData>>
       /\ lastEvent'.kind \in {"click", "search", "edit", "add", "delete"} =>
            UNCHANGED hoveredNodeId]_vars

\* The pointer has entered a node other than the selected one, with
\* highlights on and a node collapsed.
C18_Witness ==
    /\ lastEvent.kind = "enter"
    /\ hoveredNodeId # NoId
    /\ selectedNodeId # NoId
    /\ hoveredNodeId # selectedNodeId
    /\ highlightedNodes # {}
    /\ collapsedNodes # {}

\* C19: a click (collapse or expand), the pointer, a search, Clear Selection,
\* closing the panel and the export never change the document; only an edit,
\* an add-child, a delete and a document replacement can.
C19_CollapseIsUiOnly ==
    [][/\ lastEvent'.kind \in {"click", "enter", "leave", "search", "clear",
                                "close", "export"} =>
            mindmapData' = mindmapData
       /\ mindmapData' # mindmapData =>
            lastEvent'.kind \in {"edit", "add", "delete", "data"}]_vars

\* A click has collapsed a node and the document still holds its children.
C19_Witness ==
    /\ lastEvent.kind = "click"
    /\ lastEvent.id \in collapsedNodes
    /\ findNode(lastEvent.id, mindmapData.root).children # <<>>
    /\ Len(nodes) < Len(Preorder(mindmapData.root))

\* C20: once a document has been loaded, every node whose data carries
\* collapsed = true is collapsed: its id is in the collapsed set and none of
\* its descendants is in the layout.
C20_InitialCollapseFromData ==
    lastEvent.kind \in {"mount", "data"} =>
        \A n \in Range(Preorder(mindmapData.root)) :
            ("collapsed" \in DOMAIN n /\ n.collapsed) =>
                /\ n.id \in collapsedNodes
                /\ DescendantIds(mindmapData.root, n.id)
                      \cap Range(IdSeq(nodes)) = {}

\* C21: after every event the displayed nodes and edges are the layout of the
\* current document under the current collapsed set: no event is handled on
\* a layout that reflects an older document or collapsed set.
C21_LayoutFreshness ==
    LET flow == convertMindmapToFlow(mindmapData.root, collapsedNodes)
    IN  nodes = flow.nodes /\ edges = flow.edges

\* A delete has been processed while a collapsed node hides part of the
\* document.
C21_Witness ==
    /\ lastEvent.kind = "delete"
    /\ collapsedNodes \cap IdsOf(mindmapData.root) # {}
    /\ Len(nodes) < Len(Preorder(mindmapData.root))

\* C22: events are applied in arrival order, each edit, add-child and delete
\* to the document the event before it left: the document after the event is
\* the tree helper applied to the document before it, and no other event
\* but a document replacement touches the document, so no mutation is lost.
C22_NoLostMutation ==
    [][LET id   == lastEvent'.id
           root == mindmapData.root
       IN  /\ lastEvent'.kind = "edit" =>
                \E f \in EditUpdates :
                    mindmapData'.root = updateNodeInTree(id, f, root)
           /\ lastEvent'.kind = "add" =>
                \E t \in Clock :
                    mindmapData'.root =
                        updateNodeInTree(id,
                            [children |-> Append(findNode(id, root).children,
                                                 newChild(id, t))],
                            root)
           /\ lastEvent'.kind = "delete" =>
                mindmapData'.root = deleteNodeFromTree(root, id)
           /\ lastEvent'.kind \notin {"edit", "add", "delete", "data"} =>
                mindmapData' = mindmapData]_vars

\* An edit has been applied to a document an add-child had extended, and the
\* added node is still there.
C22_Witness ==
    /\ lastEvent.kind = "edit"
    /\ mutations = 2
    /\ Len(Preorder(mindmapData.root)) > Len(Preorder(data.root))

\* C23: for a root with N >= 1 children, whatever the collapsed set that
\* leaves them displayed, the i-th child (i = 0..N-1) is at i/N of a full
\* turn, at distance BASE_RADIUS from the root, which is at the origin, and
\* has the edge from the root.
C23_LevelOneUniform ==
    (lastEvent.kind = "layout" /\ mindmapData.root.id \notin collapsedNodes) =>
        LET root == mindmapData.root
            N    == Len(root.children)
        IN  /\ Shown(root.id).position = [x |-> <<>>, y |-> <<>>]
            /\ \A i \in 0..(N - 1) :
                  LET child == Shown(root.children[i + 1].id)
                      term  == [angle |-> child.angle,
                                radius |-> [base |-> BASE_RADIUS, power |-> 0]]
                  IN  /\ child.angle.turn * N = i * FullTurn
                      /\ child.angle.fan = {}
                      /\ child.position = [x |-> <<term>>, y |-> <<term>>]
                      /\ [source |-> root.id, target |-> child.id]
                            \in Range(edges)

\* A root with three children has been laid out with one of them collapsed.
C23_Witness ==
    /\ lastEvent.kind = "layout"
    /\ Len(mindmapData.root.children) = 3
    /\ mindmapData.root.id \notin collapsedNodes
    /\ collapsedNodes # {}
    /\ Len(nodes) = 4

\* C24: on every level from the first on, a node that is the only child of
\* its parent gets exactly the angle of its parent (0 under the root), so
\* that a chain of only children keeps one angle.
C24_SingleChildStraight ==
    lastEvent.kind = "layout" =>
        \A k \in 1..Len(nodes) :
            LET n == nodes[k]
                parentId == ParentId(mindmapData.root, n.id)
            IN  (/\ parentId # NoId
                 /\ Len(findNode(parentId, mindmapData.root).children) = 1) =>
                    /\ n.angle = Shown(parentId).angle
                    /\ parentId = mindmapData.root.id =>
                          n.angle = [turn |-> 0, fan |-> {}]

\* An only child on the third level has been laid out under a parent that
\* a fan has turned away from its own parent's angle.
C24_Witness ==
    /\ lastEvent.kind = "layout"
    /\ \E k \in 1..Len(nodes) :
          /\ nodes[k].slot.level = 3
          /\ nodes[k].slot.siblingCount = 1
          /\ nodes[k].angle.fan # {}

\* C25: in every state the selected id is null or the id of a node of the
\* current document.
C25_SelectionIsLive ==
    selectedNodeId = NoId \/ selectedNodeId \in IdsOf(mindmapData.root)

\* The selected node has been deleted from the document, with its subtree.
C25_Witness ==
    /\ lastEvent.kind \in DeleteKinds
    /\ lastEvent.id # StaleId
    /\ lastEvent.id \notin IdsOf(mindmapData.root)
    /\ selectedNodeId = NoId
    /\ Len(Preorder(mindmapData.root)) < Len(Preorder(data.root))

\* C26: in every state every highlighted id is the id of a node of the
\* current document.
C26_HighlightsAreLive ==
    highlightedNodes \subseteq IdsOf(mindmapData.root)

\* A node has been deleted and highlights are on again, from the search.
C26_Witness ==
    /\ lastEvent.kind \in DeleteKinds
    /\ lastEvent.id # StaleId
    /\ lastEvent.id \notin IdsOf(mindmapData.root)
    /\ highlightedNodes # {}

\* C27: in every state every collapsed id is the id of a node of the current
\* document that has a child; a delete leaves no id of a removed node in the
\* collapsed set.
C27_CollapsedAreLiveParents ==
    \A id \in collapsedNodes :
        /\ id \in IdsOf(mindmapData.root)
        /\ findNode(id, mindmapData.root).children # <<>>

\* C28: in every state with an empty search query and a selected node, the
\* selected id is among the highlights.
C28_SelectedIsHighlighted ==
    (searchQuery = <<>> /\ selectedNodeId # NoId) =>
        selectedNodeId \in highlightedNodes

\* C29: in every state an open panel implies a selected node, and the side
\* panel is rendered only for a node of the current document.
C29_PanelImpliesSelection ==
    /\ showSidePanel => selectedNodeId # NoId
    /\ panelRendered => /\ selectedNodeId # NoId
                        /\ selectedNode.id \in IdsOf(mindmapData.root)

\* The panel is still open after an add-child, on the node just added.
C29_Witness ==
    /\ showSidePanel
    /\ lastEvent.kind = "add"
    /\ selectedNodeId = Append(lastEvent.id, selectedNodeId[Len(selectedNodeId)])
    /\ panelRendered

\* C30: for one document and any two collapsed sets, a node displayed under
\* both has the same position and the same incoming edge in both layouts: a
\* position depends on the document only, not on what is collapsed.
C30_CollapseMovesNothing ==
    lastEvent.kind = "layout" =>
        \A other \in SUBSET IdsOf(mindmapData.root) :
            LET flow == convertMindmapToFlow(mindmapData.root, other)
                into(es, id) == {e \in Range(es) : e.target = id}
            IN  \A i \in 1..Len(nodes), j \in 1..Len(flow.nodes) :
                    nodes[i].id = flow.nodes[j].id =>
                        /\ nodes[i].position = flow.nodes[j].position
                        /\ into(edges, nodes[i].id)
                             = into(flow.edges, nodes[i].id)

\* A document has been laid out with a collapsed node hiding part of it and
\* a fanned node of the second level displayed.
C30_Witness ==
    /\ lastEvent.kind = "layout"
    /\ collapsedNodes # {}
    /\ Len(nodes) < Len(Preorder(mindmapData.root))
    /\ \E i \in 1..Len(nodes) :
          /\ nodes[i].slot.level = 2
          /\ nodes[i].angle.fan # {}
          /\ nodes[i].id \in collapsedNodes

====
